---- MODULE Spec2Model ----
(***************************************************************************)
(* Model of the sectioned binary container reader BinFile                  *)
(* (src/src/binfile_utils.rs): the constructor BinFile::new, the random    *)
(* access lookups get_section_data / get_section_size and the sequential   *)
(* cursor start_read_section / read / end_read_section.                    *)
(*                                                                         *)
(* Bytes are integers 0..255, buffers are sequences of bytes, a raw        *)
(* pointer into the owned buffer is the integer addr_ptr + offset.         *)
(* A Rust panic (slice index out of range, unwrap on None, arithmetic       *)
(* overflow in a build with overflow checks) is the result kind "panic";   *)
(* it ends the run (pc = "panicked").                                      *)
(*                                                                         *)
(* A usize or u64 value of 2^63 or more is held as the value minus 2^64    *)
(* (its two's-complement reading): u64::MAX is -1. Sums and differences of *)
(* the integers are then the wrapped sums and differences of the machine.  *)
(***************************************************************************)
EXTENDS Integers, Sequences, FiniteSets, TLC

VARIABLES
    pc,               \* "start" | "ready" | "failed" | "panicked"
    file_data,        \* argument of BinFile::new: the input bytes
    expected_type,    \* argument of BinFile::new: the expected tag (bytes of the &str)
    max_version,      \* argument of BinFile::new
    addr,             \* BinFile.addr: the owned copy of the bytes
    addr_ptr,         \* addr.as_ptr(): address of the owned heap buffer
    pos,              \* BinFile.pos: the read cursor
    version,          \* BinFile.version
    sections,         \* BinFile.sections: s_type -> sequence of Section
    reading_section,  \* BinFile.reading_section: <<>> (None) or <<section>> (Some)
    ret,              \* result of the last call
    overflow_checks,  \* the build profile: TRUE when integer overflow panics (dev),
                      \* FALSE when it wraps (release)
    consumed,         \* history: sum of the read lengths since the session started,
                      \* modulo 2^64
    wrapped,          \* history: that sum has passed 2^64
    built             \* history: <<l>> when file_data is the whole file built from
                      \* the section list l with the right section count, else <<>>

vars == <<pc, file_data, expected_type, max_version, addr, addr_ptr, pos, version,
          sections, reading_section, ret, overflow_checks, consumed, wrapped, built>>

----------------------------------------------------------------------------
(* Bounds of the model *)

\* most section records in a generated file
MaxSections == 2
\* longest payload of a generated section record
MaxPayloadLen == 2
\* most trailing bytes cut off a generated file
MaxCut == 1
\* largest len passed to read
MaxReadLen == 2
\* how far past the end of the buffer the model follows the cursor
MaxOverrun == 1

----------------------------------------------------------------------------
(* Bytes and little-endian integers *)

RECURSIVE to_le_bytes(_, _)
\* v.to_le_bytes() for an n-byte unsigned integer
to_le_bytes(v, n) ==
    IF n = 0 THEN <<>> ELSE <<v % 256>> \o to_le_bytes(v \div 256, n - 1)

RECURSIVE from_le_bytes(_)
\* uN::from_le_bytes(b)
from_le_bytes(b) ==
    IF b = <<>> THEN 0 ELSE Head(b) + 256 * from_le_bytes(Tail(b))

\* data[pos..pos + n] is in range (otherwise the slice index panics)
InRange(data, p, n) == p + n <= Len(data)

\* data[pos..pos + n] (0-based, half open)
Slice(data, p, n) == SubSeq(data, p + 1, p + n)

\* value read by read_u32_le(data, &mut pos); pos advances by 4
read_u32_le(data, p) == from_le_bytes(Slice(data, p, 4))

\* value read by read_u64_le(data, &mut pos); pos advances by 8
read_u64_le(data, p) == from_le_bytes(Slice(data, p, 8))

IsCont(c) == c >= 128 /\ c <= 191

RECURSIVE ValidUtf8(_)
\* String::from_utf8(b).is_ok(): b is well-formed UTF-8
ValidUtf8(b) ==
    IF b = <<>> THEN TRUE
    ELSE LET c == b[1]
             n == Len(b)
             rest(k) == SubSeq(b, k + 1, n)
         IN  IF c < 128 THEN ValidUtf8(rest(1))
             ELSE IF c >= 194 /\ c <= 223
                  THEN n >= 2 /\ IsCont(b[2]) /\ ValidUtf8(rest(2))
             ELSE IF c >= 224 /\ c <= 239
                  THEN /\ n >= 3
                       /\ IsCont(b[2]) /\ IsCont(b[3])
                       /\ (c = 224 => b[2] >= 160)
                       /\ (c = 237 => b[2] <= 159)
                       /\ ValidUtf8(rest(3))
             ELSE IF c >= 240 /\ c <= 244
                  THEN /\ n >= 4
                       /\ IsCont(b[2]) /\ IsCont(b[3]) /\ IsCont(b[4])
                       /\ (c = 240 => b[2] >= 144)
                       /\ (c = 244 => b[2] <= 143)
                       /\ ValidUtf8(rest(4))
             ELSE FALSE

----------------------------------------------------------------------------
(* Results *)

None == <<>>
Some(s) == <<s>>

Ok(v) == [kind |-> "Ok", err |-> "none", msg |-> "", val |-> v]
Err(e, m) == [kind |-> "Err", err |-> e, msg |-> m, val |-> 0]
Panic == [kind |-> "panic", err |-> "none", msg |-> "", val |-> 0]

\* the messages RangeError::new is given
MsgNoSection == "Section does not exist"
MsgPosTooBig == "Section pos too big"
MsgAlreadyReading == "Already reading a section"
MsgInvalidSize == "Invalid section size"

----------------------------------------------------------------------------
(* BinFile::new *)

Section(start, size) == [start |-> start, size |-> size]

\* mutant: the new descriptor goes in front of the list
Push_front(secs, s_type, sec) ==
    [k \in DOMAIN secs \cup {s_type} |->
        IF k = s_type
        THEN <<sec>> \o (IF s_type \in DOMAIN secs THEN secs[s_type] ELSE <<>>)
        ELSE secs[k]]

\* sections.entry(s_type).or_insert_with(Vec::new).push(sec)
Push(secs, s_type, sec) ==
    [k \in DOMAIN secs \cup {s_type} |->
        IF k = s_type
        THEN Append(IF s_type \in DOMAIN secs THEN secs[s_type] ELSE <<>>, sec)
        ELSE secs[k]]

\* offset of a record's payload, the record's 12-byte prefix starting at p
PayloadStart(p) == p + 4 + 8

\* pos after `pos += s_size as usize`
SkipPayload(p, s_size) == p + s_size

RECURSIVE read_sections(_, _, _, _, _)
\* the loop `for _ in 0..n_sections` of BinFile::new, p the value of pos, n the
\* iterations left; a read out of range panics
read_sections(data, base, p, n, secs) ==
    IF n = 0 THEN [panic |-> FALSE, sections |-> secs]
    ELSE IF ~InRange(data, p, 4) \/ ~InRange(data, p + 4, 8)
         THEN [panic |-> TRUE, sections |-> secs]
    ELSE LET s_type == read_u32_le(data, p)
             s_size == read_u64_le(data, p + 4)
             q      == PayloadStart(p)
         IN  read_sections(data, base, SkipPayload(q, s_size), n - 1,
                           Push(secs, s_type, Section(base + q, s_size)))

\* file_type != expected_type
TypeMismatch(file_type, expected) == file_type # expected

\* mutant: the version must be below max_version
VersionTooNew_ge(v, max) == v >= max

\* version > max_version
VersionTooNew(v, max) == v > max

\* BinFile::new(file_data, file_data.len(), expected, max), the owned buffer
\* allocated at address base: the result and the fields of the new BinFile
BinFile_new(data, expected, max, base) ==
    LET fail(r) == [ret |-> r, version |-> 0, sections |-> <<>>]
    IN
    IF ~InRange(data, 0, 4) THEN fail(Panic)
    ELSE IF ~ValidUtf8(Slice(data, 0, 4)) THEN fail(Err("FromUtf8Error", ""))
    ELSE IF TypeMismatch(Slice(data, 0, 4), expected)
         THEN fail(Err("InvalidFileType", ""))
    ELSE IF ~InRange(data, 4, 4) THEN fail(Panic)
    ELSE IF VersionTooNew(read_u32_le(data, 4), max)
         THEN fail(Err("InvalidVersion", ""))
    ELSE IF ~InRange(data, 8, 4) THEN fail(Panic)
    ELSE LET loop == read_sections(data, base, 12, read_u32_le(data, 8), <<>>)
         IN  IF loop.panic THEN fail(Panic)
             ELSE [ret |-> Ok(0), version |-> read_u32_le(data, 4),
                   sections |-> loop.sections]

----------------------------------------------------------------------------
(* Lookups and the sequential cursor, as functions of the fields *)

\* mutant: the first descriptor of the type is returned at every index in range
get_section_data_first(secs, section_id, section_pos) ==
    IF section_id \notin DOMAIN secs THEN Err("RangeError", MsgNoSection)
    ELSE IF section_pos >= Len(secs[section_id]) THEN Err("RangeError", MsgPosTooBig)
    ELSE Ok(secs[section_id][1].start)

\* get_section_data(section_id, section_pos)
get_section_data(secs, section_id, section_pos) ==
    IF section_id \notin DOMAIN secs THEN Err("RangeError", MsgNoSection)
    ELSE IF section_pos >= Len(secs[section_id]) THEN Err("RangeError", MsgPosTooBig)
    ELSE Ok(secs[section_id][section_pos + 1].start)

\* mutant: a missing type is reported as an index out of range
get_section_size_msg(secs, section_id, section_pos) ==
    IF section_id \notin DOMAIN secs THEN Err("RangeError", MsgPosTooBig)
    ELSE IF section_pos >= Len(secs[section_id]) THEN Err("RangeError", MsgPosTooBig)
    ELSE Ok(secs[section_id][section_pos + 1].size)

\* get_section_size(section_id, section_pos)
get_section_size(secs, section_id, section_pos) ==
    IF section_id \notin DOMAIN secs THEN Err("RangeError", MsgNoSection)
    ELSE IF section_pos >= Len(secs[section_id]) THEN Err("RangeError", MsgPosTooBig)
    ELSE Ok(secs[section_id][section_pos + 1].size)

\* mutant: a session already active is not checked for
start_read_section_unguarded(secs, base, p, reading, section_id, section_pos) ==
    LET same(r) == [ret |-> r, pos |-> p, reading_section |-> reading]
    IN
    IF section_id \notin DOMAIN secs THEN same(Err("RangeError", MsgNoSection))
    ELSE IF section_pos >= Len(secs[section_id])
         THEN same(Err("RangeError", MsgPosTooBig))
    ELSE LET section == secs[section_id][section_pos + 1]
         IN  [ret |-> Ok(0), pos |-> section.start - base,
              reading_section |-> Some(section)]

\* mutant: the cursor is moved to the section only when that is forward
start_read_section_forward(secs, base, p, reading, section_id, section_pos) ==
    LET same(r) == [ret |-> r, pos |-> p, reading_section |-> reading]
    IN
    IF section_id \notin DOMAIN secs THEN same(Err("RangeError", MsgNoSection))
    ELSE IF section_pos >= Len(secs[section_id])
         THEN same(Err("RangeError", MsgPosTooBig))
    ELSE IF reading # None THEN same(Err("RangeError", MsgAlreadyReading))
    ELSE LET section == secs[section_id][section_pos + 1]
         IN  [ret |-> Ok(0),
              pos |-> IF p > section.start - base THEN p ELSE section.start - base,
              reading_section |-> Some(section)]

\* mutant: the cursor is moved to the section before the active session is
\* checked for
start_read_section_seeks_first(secs, base, p, reading, section_id, section_pos) ==
    LET same(r) == [ret |-> r, pos |-> p, reading_section |-> reading]
    IN
    IF section_id \notin DOMAIN secs THEN same(Err("RangeError", MsgNoSection))
    ELSE IF section_pos >= Len(secs[section_id])
         THEN same(Err("RangeError", MsgPosTooBig))
    ELSE LET section == secs[section_id][section_pos + 1]
         IN  IF reading # None
             THEN [ret |-> Err("RangeError", MsgAlreadyReading),
                   pos |-> section.start - base, reading_section |-> reading]
             ELSE [ret |-> Ok(0), pos |-> section.start - base,
                   reading_section |-> Some(section)]

\* start_read_section(section_id, section_pos): the result and the new pos and
\* reading_section
start_read_section(secs, base, p, reading, section_id, section_pos) ==
    LET same(r) == [ret |-> r, pos |-> p, reading_section |-> reading]
    IN
    IF section_id \notin DOMAIN secs THEN same(Err("RangeError", MsgNoSection))
    ELSE IF section_pos >= Len(secs[section_id])
         THEN same(Err("RangeError", MsgPosTooBig))
    ELSE IF reading # None THEN same(Err("RangeError", MsgAlreadyReading))
    ELSE LET section == secs[section_id][section_pos + 1]
         IN  [ret |-> Ok(0), pos |-> section.start - base,
              reading_section |-> Some(section)]

\* a + b on usize passes 2^64, for a cursor a below 2^63
AddOverflows(a, b) == b < 0 /\ a + b >= 0

\* a - b on usize goes below zero, for a and b below 2^63
SubOverflows(a, b) == a < b

\* mutant: the session is closed before its size is checked
end_read_section_closes(base, p, reading, check, checks) ==
    LET done == [ret |-> Ok(0), reading_section |-> None]
    IN
    IF ~check THEN done
    ELSE IF reading = None THEN [ret |-> Panic, reading_section |-> reading]
    ELSE IF SubOverflows(base + p, reading[1].start) /\ checks
         THEN [ret |-> Panic, reading_section |-> reading]
    ELSE IF (base + p) - reading[1].start # reading[1].size
         THEN [ret |-> Err("RangeError", MsgInvalidSize), reading_section |-> None]
    ELSE done

\* mutant: the size is checked whatever the flag
end_read_section_always_checks(base, p, reading, check, checks) ==
    LET same(r) == [ret |-> r, reading_section |-> reading]
        done    == [ret |-> Ok(0), reading_section |-> None]
    IN
    IF reading = None THEN (IF check THEN same(Panic) ELSE done)
    ELSE IF SubOverflows(base + p, reading[1].start) /\ checks THEN same(Panic)
    ELSE IF (base + p) - reading[1].start # reading[1].size
         THEN same(Err("RangeError", MsgInvalidSize))
    ELSE done

\* end_read_section(check): the result and the new reading_section. The
\* subtraction (addr.as_ptr() + pos) - start is on usize: below zero it panics
\* in a build with overflow checks (checks) and wraps in a build without.
end_read_section(base, p, reading, check, checks) ==
    LET same(r) == [ret |-> r, reading_section |-> reading]
        done    == [ret |-> Ok(0), reading_section |-> None]
    IN
    IF ~check THEN done
    ELSE IF reading = None THEN same(Panic)
    ELSE IF SubOverflows(base + p, reading[1].start) /\ checks THEN same(Panic)
    ELSE IF (base + p) - reading[1].start # reading[1].size
         THEN same(Err("RangeError", MsgInvalidSize))
    ELSE done

\* read(len): the result and the new pos. `self.pos += len as usize` is on
\* usize: past 2^64 it panics in a build with overflow checks (checks) and wraps
\* in a build without.
read(data, base, p, len, checks) ==
    IF p > Len(data) THEN [ret |-> Panic, pos |-> p]
    ELSE IF AddOverflows(p, len) /\ checks THEN [ret |-> Panic, pos |-> p]
    ELSE [ret |-> Ok(base + p), pos |-> p + len]

----------------------------------------------------------------------------
(* Input files, built the way the tests build them *)

\* b"TEST", b"XTST", "\u{e9}ST" and four bytes that are not UTF-8
TagTEST == <<84, 69, 83, 84>>
TagXTST == <<88, 84, 83, 84>>
TagAccented == <<195, 169, 83, 84>>
TagNotUtf8 == <<255, 69, 83, 84>>
FileTags == {TagTEST, TagXTST, TagAccented, TagNotUtf8}
ExpectedTypes == {TagTEST}
Versions == {0, 1, 2}
MaxVersions == {1}
SectionTypes == {1, 2}
HeapBases == {4096}

\* the types and indices looked up: the types of the files and one that no file
\* holds, every index of a file and the one past the last of MaxSections records
LookupTypes == SectionTypes \cup {999}
LookupIndices == 0..MaxSections

\* the indices looked up between the calls of the sequential cursor: the first
\* and the one past the last of MaxSections records
SessionLookups == {0, MaxSections}

\* the lengths passed to read: the short ones and u64::MAX
U64Max == -1
ReadLens == (0..MaxReadLen) \cup {U64Max}

\* the payload of the k-th record of a generated file, n bytes long
PayloadOf(k, n) == [j \in 1..n |-> 16 * k + j]

\* section lists: the k-th record has type l[k][1] and payload PayloadOf(k, l[k][2])
RecordLists ==
    UNION {[1..n -> SectionTypes \X (0..MaxPayloadLen)] : n \in 0..MaxSections}

RecType(l, k) == l[k][1]
RecData(l, k) == PayloadOf(k, l[k][2])

RECURSIVE RecordBytes(_, _)
\* records k..Len(l): type, size and payload of each, back to back
RecordBytes(l, k) ==
    IF k > Len(l) THEN <<>>
    ELSE to_le_bytes(RecType(l, k), 4) \o to_le_bytes(Len(RecData(l, k)), 8)
         \o RecData(l, k) \o RecordBytes(l, k + 1)

\* tag, version, section count, records
BuildFile(tag, v, n, l) ==
    tag \o to_le_bytes(v, 4) \o to_le_bytes(n, 4) \o RecordBytes(l, 1)

\* section lists for the sequential cursor: payloads of full length, the first
\* record of type 1 (the code treats a type as an opaque key)
SessionLists ==
    {l \in RecordLists :
        /\ \A k \in 1..Len(l) : l[k][2] = MaxPayloadLen
        /\ l # <<>> => l[1][1] = 1}
SessionCuts == {0, 1}

\* the file without its last cut bytes
CutTail(data, cut) == SubSeq(data, 1, Len(data) - cut)

----------------------------------------------------------------------------
(* The state machine *)

Call(op, args, r) ==
    [op |-> op, args |-> args, kind |-> r.kind, err |-> r.err, msg |-> r.msg,
     val |-> r.val]

\* the fields before BinFile::new has run
Blank ==
    /\ pc = "start"
    /\ addr = <<>>
    /\ addr_ptr = 0
    /\ pos = 0
    /\ version = 0
    /\ sections = <<>>
    /\ reading_section = None
    /\ ret = Call("none", <<>>, Ok(0))
    /\ consumed = 0
    /\ wrapped = FALSE

\* files for the sequential cursor: a matching tag, an accepted version, any
\* section list of SessionLists, possibly with the last payload cut short
Init ==
    /\ expected_type \in ExpectedTypes
    /\ max_version \in MaxVersions
    /\ \E l \in SessionLists, cut \in SessionCuts :
          /\ cut = 0 \/ (l # <<>> /\ cut <= l[Len(l)][2])
          /\ file_data = CutTail(BuildFile(expected_type, max_version, Len(l), l), cut)
          /\ built = IF cut = 0 THEN Some(l) ELSE None
    /\ overflow_checks \in BOOLEAN
    /\ Blank

\* files for the constructor: any tag, version and section list, the section
\* count right or one too many, the file whole, cut short, or only a part of
\* its 12-byte header. No sum of the constructor or of the lookups reaches 2^64
\* on these files, so one build profile stands for both.
InitParse ==
    /\ expected_type \in ExpectedTypes
    /\ max_version \in MaxVersions
    /\ \E tag \in FileTags, v \in Versions :
          \/ \E l \in RecordLists, extra \in {0, 1}, cut \in 0..MaxCut :
                /\ file_data = CutTail(BuildFile(tag, v, Len(l) + extra, l), cut)
                /\ built = IF cut = 0 /\ extra = 0 THEN Some(l) ELSE None
          \/ \E n \in 0..MaxSections, k \in 0..11 :
                /\ file_data = SubSeq(BuildFile(tag, v, n, <<>>), 1, k)
                /\ built = None
    /\ overflow_checks = TRUE
    /\ Blank

\* let bin_file = BinFile::new(&file_data, file_data.len(), expected_type, max_version)
New ==
    /\ pc = "start"
    /\ \E base \in HeapBases :
          LET r == BinFile_new(file_data, expected_type, max_version, base)
          IN  /\ ret' = Call("new", <<>>, r.ret)
              /\ pc' = CASE r.ret.kind = "Ok" -> "ready"
                         [] r.ret.kind = "Err" -> "failed"
                         [] OTHER -> "panicked"
              /\ addr' = IF r.ret.kind = "Ok" THEN file_data ELSE addr
              /\ addr_ptr' = IF r.ret.kind = "Ok" THEN base ELSE addr_ptr
              /\ version' = r.version
              /\ sections' = r.sections
    /\ UNCHANGED <<built, file_data, expected_type, max_version, pos, reading_section,
                   overflow_checks, consumed, wrapped>>

\* mutant: the lookup leaves the cursor on the payload it found
GetSectionData_seeks(section_id, section_pos) ==
    /\ pc = "ready"
    /\ LET r == get_section_data(sections, section_id, section_pos)
       IN  /\ ret' = Call("get_section_data", <<section_id, section_pos>>, r)
           /\ pos' = IF r.kind = "Ok" THEN r.val - addr_ptr ELSE pos
    /\ UNCHANGED <<pc, built, file_data, expected_type, max_version, addr, addr_ptr,
                   version, sections, reading_section, overflow_checks, consumed,
                   wrapped>>

GetSectionData(section_id, section_pos) ==
    /\ pc = "ready"
    /\ ret' = Call("get_section_data", <<section_id, section_pos>>,
                   get_section_data(sections, section_id, section_pos))
    /\ UNCHANGED <<pc, built, file_data, expected_type, max_version, addr, addr_ptr, pos,
                   version, sections, reading_section, overflow_checks, consumed,
                   wrapped>>

GetSectionSize(section_id, section_pos) ==
    /\ pc = "ready"
    /\ ret' = Call("get_section_size", <<section_id, section_pos>>,
                   get_section_size(sections, section_id, section_pos))
    /\ UNCHANGED <<pc, built, file_data, expected_type, max_version, addr, addr_ptr, pos,
                   version, sections, reading_section, overflow_checks, consumed,
                   wrapped>>

StartReadSection(section_id, section_pos) ==
    /\ pc = "ready"
    /\ LET r == start_read_section(sections, addr_ptr, pos, reading_section,
                                   section_id, section_pos)
       IN  /\ ret' = Call("start_read_section", <<section_id, section_pos>>, r.ret)
           /\ pos' = r.pos
           /\ reading_section' = r.reading_section
           /\ consumed' = IF r.ret.kind = "Ok" THEN 0 ELSE consumed
           /\ wrapped' = IF r.ret.kind = "Ok" THEN FALSE ELSE wrapped
    /\ UNCHANGED <<pc, built, file_data, expected_type, max_version, addr, addr_ptr,
                   version, sections, overflow_checks>>

EndReadSection(check) ==
    /\ pc = "ready"
    /\ LET r == end_read_section(addr_ptr, pos, reading_section, check,
                                 overflow_checks)
       IN  /\ ret' = Call("end_read_section", <<check>>, r.ret)
           /\ reading_section' = r.reading_section
           /\ pc' = IF r.ret.kind = "panic" THEN "panicked" ELSE pc
           /\ consumed' = IF r.ret.kind = "Ok" THEN 0 ELSE consumed
           /\ wrapped' = IF r.ret.kind = "Ok" THEN FALSE ELSE wrapped
    /\ UNCHANGED <<built, file_data, expected_type, max_version, addr, addr_ptr, pos,
                   version, sections, overflow_checks>>

Read(len) ==
    /\ pc = "ready"
    /\ pos + len \in 0..(Len(addr) + MaxOverrun)
    /\ LET r == read(addr, addr_ptr, pos, len, overflow_checks)
           counted == r.ret.kind = "Ok" /\ reading_section # None
       IN  /\ ret' = Call("read", <<len>>, r.ret)
           /\ pos' = r.pos
           /\ pc' = IF r.ret.kind = "panic" THEN "panicked" ELSE pc
           /\ consumed' = IF counted THEN consumed + len ELSE consumed
           /\ wrapped' = IF counted /\ len < 0 THEN TRUE ELSE wrapped
    /\ UNCHANGED <<built, file_data, expected_type, max_version, addr, addr_ptr, version,
                   sections, reading_section, overflow_checks>>

Next ==
    \/ New
    \/ \E t \in SectionTypes, i \in SessionLookups : GetSectionData(t, i)
    \/ \E t \in SectionTypes, i \in SessionLookups : GetSectionSize(t, i)
    \/ \E t \in SectionTypes, i \in LookupIndices : StartReadSection(t, i)
    \/ \E check \in BOOLEAN : EndReadSection(check)
    \/ \E len \in ReadLens : Read(len)

Spec == Init /\ [][Next]_vars

NextParse ==
    \/ New
    \/ \E t \in LookupTypes, i \in LookupIndices : GetSectionData(t, i)
    \/ \E t \in LookupTypes, i \in LookupIndices : GetSectionSize(t, i)

SpecParse == InitParse /\ [][NextParse]_vars

----------------------------------------------------------------------------
(* Vocabulary of the claims: the error kinds by the error value the code      *)
(* returns, and the wire format read off the bytes position by position       *)

IsOk(r) == r.kind = "Ok"
IsInvalidType(r) == r.kind = "Err" /\ r.err = "InvalidFileType"
IsUnsupportedVersion(r) == r.kind = "Err" /\ r.err = "InvalidVersion"
IsSectionNotFound(r) == r.kind = "Err" /\ r.err = "RangeError" /\ r.msg = MsgNoSection
IsIndexOutOfRange(r) == r.kind = "Err" /\ r.err = "RangeError" /\ r.msg = MsgPosTooBig
IsAlreadyReading(r) ==
    r.kind = "Err" /\ r.err = "RangeError" /\ r.msg = MsgAlreadyReading
IsSectionSizeMismatch(r) ==
    r.kind = "Err" /\ r.err = "RangeError" /\ r.msg = MsgInvalidSize

\* the little-endian u32 in the 4 bytes at offset off
WireU32(data, off) ==
    data[off + 1] + 256 * (data[off + 2] + 256 * (data[off + 3] + 256 * data[off + 4]))

\* the little-endian u64 in the 8 bytes at offset off
WireU64(data, off) ==
    data[off + 1] + 256 * (data[off + 2] + 256 * (data[off + 3] + 256 * (data[off + 4]
    + 256 * (data[off + 5] + 256 * (data[off + 6] + 256 * (data[off + 7]
    + 256 * data[off + 8]))))))

\* the offset of a descriptor's payload in the buffer
OffsetOf(sec) == sec.start - addr_ptr

\* the descriptors of the section index
Descriptors ==
    UNION {{sections[t][i] : i \in 1..Len(sections[t])} : t \in DOMAIN sections}

\* the section count field
WireCount(data) == WireU32(data, 8)

RECURSIVE WireSumSizes(_, _)
\* the payload of record k (from 0) starts at 12 + 12 * (k + 1) + the sum of the
\* declared sizes of the records before it
WirePayloadStart(data, k) == 12 + 12 * (k + 1) + WireSumSizes(data, k)

\* the type and the declared size of record k, in the 12 bytes before its payload
WireType(data, k) == WireU32(data, WirePayloadStart(data, k) - 12)
WireSize(data, k) == WireU64(data, WirePayloadStart(data, k) - 8)

\* the sum of the declared sizes of records 0..k-1
WireSumSizes(data, k) ==
    IF k = 0 THEN 0 ELSE WireSumSizes(data, k - 1) + WireSize(data, k - 1)

\* how many records before record k have record k's type
WireRank(data, k) ==
    Cardinality({j \in 0..(k - 1) : WireType(data, j) = WireType(data, k)})

\* how many records of the byte stream have type t
WireCountOf(data, t) ==
    Cardinality({k \in 0..(WireCount(data) - 1) : WireType(data, k) = t})

----------------------------------------------------------------------------
(* C1 *)

\* C1: every successfully constructed container satisfies offset + size <=
\* buffer.len() for every descriptor in the section index (BinFile::new fails
\* with Truncated when a record's offset + size exceeds the buffer length, the
\* last record included).
C1_DescriptorsInBounds ==
    pc = "ready" => \A sec \in Descriptors : OffsetOf(sec) + sec.size <= Len(addr)

----------------------------------------------------------------------------
(* C2 *)

\* C2: BinFile::new fails with InvalidType whenever the leading 4 bytes of the
\* buffer are not byte-for-byte equal to the expected tag, whatever those bytes
\* are, and never fails with InvalidType when they are equal.
C2_InvalidTypeIffTagDiffers ==
    (ret.op = "new" /\ Len(file_data) >= 4)
        => (IsInvalidType(ret) <=> SubSeq(file_data, 1, 4) # expected_type)

----------------------------------------------------------------------------
(* C3 *)

\* C3: with a matching tag, BinFile::new fails with UnsupportedVersion exactly
\* when the little-endian u32 at offset 4 is greater than max_version (equal is
\* accepted), whatever the section count and the section records are, present
\* or not.
C3_VersionChecked ==
    (ret.op = "new" /\ Len(file_data) >= 8 /\ SubSeq(file_data, 1, 4) = expected_type)
        => (IsUnsupportedVersion(ret) <=> WireU32(file_data, 4) > max_version)

\* a file with a matching tag and a too-large version that ends inside its
\* section count was refused with UnsupportedVersion
C3_Witness ==
    /\ ret.op = "new" /\ IsUnsupportedVersion(ret)
    /\ SubSeq(file_data, 1, 4) = expected_type
    /\ Len(file_data) = 10
    /\ WireU32(file_data, 4) = max_version + 1

----------------------------------------------------------------------------
(* C4 *)

\* the lookups at (t, idx) give a pointer and a size that delimit exactly the
\* bytes d in the buffer
Reproduces(t, idx, d) ==
    LET p == get_section_data(sections, t, idx)
        z == get_section_size(sections, t, idx)
    IN  /\ IsOk(p) /\ IsOk(z)
        /\ z.val = Len(d)
        /\ p.val - addr_ptr + z.val <= Len(addr)
        /\ Slice(addr, p.val - addr_ptr, z.val) = d

\* how many records before record i of the list l have its type
ListRank(l, i) == Cardinality({j \in 1..(i - 1) : RecType(l, j) = RecType(l, i)})

\* C4 as claimed: for a container built from a section list, for every i,
\* get_section_data(ti, 0) with get_section_size(ti, 0) reproduces di, also
\* when records share a type.
C4_RoundTripIndexZero ==
    (pc = "ready" /\ built # None)
        => \A i \in 1..Len(built[1]) :
              Reproduces(RecType(built[1], i), 0, RecData(built[1], i))

\* C4 amended: for a container built from a section list, for every i, the
\* lookups at type ti and index (number of earlier records of type ti)
\* reproduce di; index 0 reproduces di when record i is the first of its type.
C4_RoundTrip ==
    (pc = "ready" /\ built # None)
        => \A i \in 1..Len(built[1]) :
              Reproduces(RecType(built[1], i), ListRank(built[1], i),
                         RecData(built[1], i))

\* the second record of a type was looked up in a container built from a list
\* whose two records of that type hold different payloads
C4_Witness ==
    /\ pc = "ready" /\ built # None
    /\ ret.op = "get_section_data" /\ IsOk(ret) /\ ret.args[2] = 1
    /\ \E i \in 1..Len(built[1]) :
          /\ RecType(built[1], i) = ret.args[1] /\ ListRank(built[1], i) = 1
          /\ RecData(built[1], i) # <<>>
          /\ Slice(addr, ret.val - addr_ptr, Len(RecData(built[1], i)))
                = RecData(built[1], i)

----------------------------------------------------------------------------
(* C5 *)

----------------------------------------------------------------------------
(* C6 *)

\* the outcome class of a lookup among k descriptors at index i
LookupClassOk(r, k, i) ==
    /\ IsSectionNotFound(r) <=> k = 0
    /\ IsIndexOutOfRange(r) <=> (k >= 1 /\ i >= k)
    /\ IsOk(r) <=> i < k

\* C6: for every type t and index i, get_section_data(t, i) and
\* get_section_size(t, i) have the same outcome class: SectionNotFound iff the
\* byte stream holds no record of type t, IndexOutOfRange iff it holds k >= 1
\* and i >= k, success otherwise; so does every result a lookup returned.
C6_LookupOutcome ==
    pc = "ready" =>
        /\ \A t \in LookupTypes, i \in LookupIndices :
              /\ LookupClassOk(get_section_data(sections, t, i),
                               WireCountOf(addr, t), i)
              /\ LookupClassOk(get_section_size(sections, t, i),
                               WireCountOf(addr, t), i)
        /\ ret.op \in {"get_section_data", "get_section_size"}
              => LookupClassOk(ret, WireCountOf(addr, ret.args[1]), ret.args[2])

\* a lookup at index k of a type with k >= 1 descriptors failed with
\* IndexOutOfRange
C6_Witness ==
    /\ pc = "ready" /\ ret.op = "get_section_size" /\ IsIndexOutOfRange(ret)
    /\ WireCountOf(addr, ret.args[1]) = ret.args[2]
    /\ ret.args[2] >= 1

----------------------------------------------------------------------------
(* C7 *)

\* the active session's descriptor and the cursor are as before the step
SessionIntact == reading_section' = reading_section /\ pos' = pos /\ pc' = pc

\* C7 as claimed: every start_read_section made while Reading, for any
\* arguments, fails with AlreadyReading and leaves the session and the cursor
\* unchanged.
C7_AlwaysAlreadyReading ==
    [][(pc = "ready" /\ reading_section # None /\ ret'.op = "start_read_section")
          => (IsAlreadyReading(ret') /\ SessionIntact)]_vars

\* C7 amended: every start_read_section made while Reading fails and leaves the
\* session and the cursor unchanged; it fails with AlreadyReading when (type,
\* index) names a descriptor, with SectionNotFound when the type has no
\* descriptors and with IndexOutOfRange when index >= count(type) >= 1.
C7_SessionExclusive ==
    [][(pc = "ready" /\ reading_section # None /\ ret'.op = "start_read_section")
          => LET k == WireCountOf(addr, ret'.args[1])
                 i == ret'.args[2]
             IN  /\ ret'.kind = "Err"
                 /\ SessionIntact
                 /\ IsAlreadyReading(ret') <=> i < k
                 /\ IsSectionNotFound(ret') <=> k = 0
                 /\ IsIndexOutOfRange(ret') <=> (k >= 1 /\ i >= k)]_vars

\* a start_read_section naming another descriptor than the active one, after
\* reads in the session, failed with AlreadyReading
C7_Witness ==
    /\ pc = "ready" /\ reading_section # None
    /\ ret.op = "start_read_section" /\ IsAlreadyReading(ret)
    /\ sections[ret.args[1]][ret.args[2] + 1] # reading_section[1]
    /\ consumed > 0

----------------------------------------------------------------------------
(* C8 *)

\* C8: the cursor never exceeds the buffer length in any reachable state
\* (read(len) fails with OutOfBounds whenever cursor + len exceeds it).
C8_CursorWithinBuffer ==
    pc \in {"ready", "panicked"} => pos <= Len(addr)

----------------------------------------------------------------------------
(* C9 *)

\* C9: end_read_section(verify) called while Idle fails, for verify = true and
\* for verify = false, and the container stays Idle.
C9_EndWhileIdleFails ==
    [][(pc = "ready" /\ reading_section = None /\ ret'.op = "end_read_section")
          => (ret'.kind = "Err" /\ reading_section' = None /\ pc' = "ready")]_vars

----------------------------------------------------------------------------
(* C10 *)

\* the sum of the read lengths of the session, a natural number, is n (n below
\* 2^63)
ConsumedIs(n) == ~wrapped /\ consumed = n

\* C10: in Reading the cursor is the session's offset plus the sum of the read
\* lengths of the session; end_read_section(true) fails with
\* SectionSizeMismatch iff that sum differs from the declared size, and
\* otherwise succeeds and makes the container Idle; end_read_section(false)
\* always succeeds and makes the container Idle.
C10_VerifiedEnd ==
    [][(pc = "ready" /\ reading_section # None /\ ret'.op = "end_read_section")
          => /\ ConsumedIs(pos - OffsetOf(reading_section[1]))
             /\ ret'.args[1] = TRUE =>
                   /\ IsSectionSizeMismatch(ret') <=> ~ConsumedIs(reading_section[1].size)
                   /\ ConsumedIs(reading_section[1].size)
                         => (IsOk(ret') /\ reading_section' = None)
                   /\ ret'.kind \in {"Ok", "Err"}
             /\ ret'.args[1] = FALSE => (IsOk(ret') /\ reading_section' = None)
             /\ pc' = "ready" /\ pos' = pos]_vars

----------------------------------------------------------------------------
(* C11 *)

\* C11: every operation, on every input, returns a success or an error value;
\* no operation panics.
C11_NoPanic == ret.kind # "panic" /\ pc # "panicked"

----------------------------------------------------------------------------
(* C12 *)

\* the record of the byte stream that is the i-th (from 0) of type t
WireIndexOf(data, t, i) ==
    CHOOSE k \in 0..(WireCount(data) - 1) :
        WireType(data, k) = t /\ WireRank(data, k) = i

\* C12: start_read_section(type, index) called in Idle with index <
\* count(type) succeeds, sets the cursor to the payload offset of that
\* descriptor whatever the cursor was, and makes the descriptor the active
\* session; the section index and the buffer are unchanged.
C12_StartFromIdle ==
    [][(/\ pc = "ready" /\ reading_section = None
        /\ ret'.op = "start_read_section"
        /\ ret'.args[2] < WireCountOf(addr, ret'.args[1]))
          => LET k == WireIndexOf(addr, ret'.args[1], ret'.args[2])
             IN  /\ IsOk(ret')
                 /\ pos' = WirePayloadStart(addr, k)
                 /\ reading_section' =
                       Some(Section(addr_ptr + WirePayloadStart(addr, k), WireSize(addr, k)))
                 /\ sections' = sections /\ addr' = addr /\ addr_ptr' = addr_ptr
                 /\ pc' = "ready"]_vars

\* a session was started on the first record of a file of several records
\* (every cursor value of the model is reached in Idle before the call)
C12_Witness ==
    /\ pc = "ready" /\ ret.op = "start_read_section" /\ IsOk(ret)
    /\ reading_section # None /\ pos = OffsetOf(reading_section[1])
    /\ pos = WirePayloadStart(addr, 0) /\ WireCount(addr) >= 2
    /\ consumed = 0

----------------------------------------------------------------------------
(* C13 *)

\* C13: a successful read(len), in Idle or in Reading, returns a view starting
\* at the cursor held before the call and advances the cursor by exactly len
\* (the cursor after is the cursor before plus len, as natural numbers); it
\* does not change the active session.
C13_ReadAdvances ==
    [][(pc = "ready" /\ ret'.op = "read" /\ IsOk(ret'))
          => /\ ret'.val = addr_ptr + pos
             /\ ret'.args[1] >= 0 /\ pos' = pos + ret'.args[1]
             /\ reading_section' = reading_section]_vars

----------------------------------------------------------------------------
(* C14 *)

\* C14: the cursor is changed only by a read, which never decreases it, and by
\* a successful start_read_section; get_section_data, get_section_size,
\* end_read_section and every failed operation leave it unchanged.
C14_CursorMoves ==
    [][pc = "ready"
          => /\ pos' # pos
                   => \/ ret'.op = "read" /\ pos' > pos
                      \/ ret'.op = "start_read_section" /\ IsOk(ret')
             /\ ret'.op = "read" => pos' >= pos
             /\ ret'.op \in {"get_section_data", "get_section_size", "end_read_section"}
                   => pos' = pos
             /\ ret'.kind # "Ok" => pos' = pos]_vars

----------------------------------------------------------------------------
(* C15 *)

\* C15: get_section_data and get_section_size, succeeding or failing, in Idle
\* or in Reading, leave the cursor, the active session, the section index and
\* the buffer unchanged, so every read and every end of the session has the
\* outcome it would have had without them.
C15_LookupsAreReadOnly ==
    [][(pc = "ready" /\ ret'.op \in {"get_section_data", "get_section_size"})
          => /\ pos' = pos /\ reading_section' = reading_section
             /\ sections' = sections /\ addr' = addr /\ addr_ptr' = addr_ptr
             /\ pc' = "ready"]_vars

\* a lookup succeeded in the middle of a session, after a read
C15_Witness ==
    /\ pc = "ready" /\ reading_section # None /\ consumed > 0
    /\ ret.op = "get_section_data" /\ IsOk(ret)
    /\ ret.val # reading_section[1].start

----------------------------------------------------------------------------
(* C16 *)

\* start_read_section(t, i) and end_read_section(false) called in this state
StartNow(t, i) ==
    start_read_section(sections, addr_ptr, pos, reading_section, t, i)
EndNow(check) ==
    end_read_section(addr_ptr, pos, reading_section, check, overflow_checks)

\* the session and the cursor are as before a failed end_read_section(true),
\* and end_read_section(false) would now succeed and make the container Idle
StillReading ==
    /\ reading_section' = reading_section /\ reading_section # None
    /\ pos' = pos /\ pc' = "ready"
    /\ IsOk(EndNow(FALSE).ret)' /\ EndNow(FALSE).reading_section' = None

\* C16 as claimed: when end_read_section(true) fails with SectionSizeMismatch
\* the session and the cursor are unchanged, every start_read_section that
\* follows at once fails with AlreadyReading, and an end_read_section(false)
\* that follows at once succeeds and makes the container Idle.
C16_FailedEndThenAlreadyReading ==
    [][(pc = "ready" /\ ret'.op = "end_read_section" /\ IsSectionSizeMismatch(ret'))
          => /\ StillReading
             /\ \A t \in LookupTypes, i \in LookupIndices :
                   IsAlreadyReading(StartNow(t, i).ret)']_vars

\* C16 amended: when end_read_section(true) fails with SectionSizeMismatch the
\* session and the cursor are unchanged; every start_read_section that follows
\* at once fails, with AlreadyReading when (type, index) names a descriptor and
\* with the lookup's error otherwise, and an end_read_section(false) that
\* follows at once succeeds and makes the container Idle.
C16_FailedEndKeepsSession ==
    [][(pc = "ready" /\ ret'.op = "end_read_section" /\ IsSectionSizeMismatch(ret'))
          => /\ StillReading
             /\ \A t \in LookupTypes, i \in LookupIndices :
                   /\ StartNow(t, i).ret.kind' = "Err"
                   /\ IsAlreadyReading(StartNow(t, i).ret)' <=> i < WireCountOf(addr, t)]_vars

\* a verified end failed after the session read less than the declared size
C16_Witness ==
    /\ pc = "ready" /\ reading_section # None
    /\ ret.op = "end_read_section" /\ IsSectionSizeMismatch(ret)
    /\ ConsumedIs(1) /\ reading_section[1].size > 1

----------------------------------------------------------------------------
(* C17 *)

\* C17: a start_read_section that fails, for an unknown type, for an index >=
\* count(type) or for an active session, in Idle or in Reading, leaves the
\* cursor and the active session as they were.
C17_FailedStartChangesNothing ==
    [][(pc = "ready" /\ ret'.op = "start_read_section" /\ ~IsOk(ret'))
          => /\ pos' = pos /\ reading_section' = reading_section /\ pc' = "ready"
             /\ \/ IsSectionNotFound(ret')
                \/ IsIndexOutOfRange(ret')
                \/ IsAlreadyReading(ret') /\ reading_section # None]_vars

\* a start_read_section failed for its index in the middle of a session
C17_Witness ==
    /\ pc = "ready" /\ reading_section # None /\ consumed > 0
    /\ ret.op = "start_read_section" /\ IsIndexOutOfRange(ret)
    /\ pos > OffsetOf(reading_section[1])

----------------------------------------------------------------------------
(* C18 *)

\* C18: in every reachable state with an active session the cursor is at or
\* after the session's offset, so cursor - offset in end_read_section(true)
\* is never below zero.
C18_CursorAtOrAfterOffset ==
    (pc = "ready" /\ reading_section # None)
        => /\ pos >= OffsetOf(reading_section[1])
           /\ ~SubOverflows(addr_ptr + pos, reading_section[1].start)

----------------------------------------------------------------------------
(* C19 *)

\* C19: a constructed container starts Idle with the cursor 0; in every
\* reachable state end_read_section(false) can be called, succeeds and makes
\* the container Idle, and in Idle start_read_section on every (type, index)
\* that names a descriptor succeeds: the container is never stuck in Reading.
C19_NeverStuck ==
    [][/\ (ret'.op = "new" /\ IsOk(ret'))
             => (pc' = "ready" /\ reading_section' = None /\ pos' = 0)
       /\ pc = "ready"
             => /\ IsOk(EndNow(FALSE).ret) /\ EndNow(FALSE).reading_section = None
                /\ ENABLED EndReadSection(FALSE)
       /\ (pc = "ready" /\ ret'.op = "end_read_section" /\ ret'.args[1] = FALSE)
             => (IsOk(ret') /\ reading_section' = None /\ pc' = "ready")
       /\ (/\ pc = "ready" /\ reading_section = None
           /\ ret'.op = "start_read_section"
           /\ ret'.args[2] < WireCountOf(addr, ret'.args[1]))
             => (IsOk(ret') /\ reading_section' # None /\ pc' = "ready")]_vars

\* an unverified end made the container Idle with the cursor left past the end
\* of the buffer, in a file that holds a descriptor to start on
C19_Witness ==
    /\ pc = "ready" /\ ret.op = "end_read_section" /\ ret.args = <<FALSE>>
    /\ IsOk(ret) /\ reading_section = None
    /\ pos > Len(addr) /\ WireCount(addr) >= 1

====
